---- MODULE Spec2Model ----
(***************************************************************************)
(* NanoLink FastAPI demo: the MetricsService (agent registry and latest-   *)
(* metrics cache) of src/demo/python-fastapi/main.py, driven by the        *)
(* on_connect / on_disconnect / on_metrics handlers and read by the REST   *)
(* endpoints.                                                              *)
(*                                                                         *)
(* Conventions.                                                            *)
(*  - A Python dict whose iteration order matters (agents) is a sequence   *)
(*    of records in insertion order; assigning to an existing key keeps    *)
(*    its position, popping and re-inserting moves it to the end.          *)
(*  - latest_metrics is a function whose DOMAIN is the set of its keys.    *)
(*  - Optional[T] is <<>> (None) or <<x>>.                                 *)
(*  - A float is the exact rational <<numerator, denominator>> in lowest   *)
(*    terms (denominator > 0).  IEEE-754 rounding is not modelled; on the  *)
(*    readings used here the double results are the exact ones.            *)
(*  - AgentMetrics.timestamp (datetime.now()) is not modelled.             *)
(***************************************************************************)
EXTENDS Integers, Sequences, FiniteSets, TLC

VARIABLES
    agents,          \* MetricsService.agents, in dict insertion order
    latest_metrics,  \* MetricsService.latest_metrics
    alerts,          \* the WARNING alerts logged by the latest handler call
    clock,           \* connections made so far; source of agent.connected_at
    unregisters,     \* unregister_agent calls so far
    dupSeen,         \* some register_agent call found its identity registered
    missSeen,        \* some unregister_agent call found its identity unknown
    live,            \* identities registered and not unregistered since
    last,            \* the latest handler call and what it found
    running,         \* the coroutine holding the event loop and its position
    observed,        \* what a read request served since the latest handler step saw
    pending,         \* the two handler calls of a race that have not started yet
    raw,             \* the raw record handed to Metrics.from_dict
    heap,            \* the list objects the dataclass instances own
    result,          \* outcome of the first Metrics.from_dict(raw) call
    result2,         \* outcome of the second Metrics.from_dict(raw) call
    section,         \* the total / used pair the percentage accessors read
    derived          \* the percentages computed from section so far

serviceVars == <<agents, latest_metrics, alerts, clock, unregisters, dupSeen,
                 missSeen, live, last, running, observed>>
raceVars == <<pending>>
normVars == <<raw, heap, result, result2>>
pctVars == <<section, derived>>

vars == <<agents, latest_metrics, alerts, clock, unregisters, dupSeen,
          missSeen, live, last, running, observed, pending, raw, heap,
          result, result2, section, derived>>

----------------------------------------------------------------------------
(* Bounds and input domains *)

MaxConnects == 2
MaxDisconnects == 1

\* Identities are assigned by the transport, hostnames are reported by the
\* agents: two disjoint sets of strings.
Ids == {"A1", "A2"}
Hostnames == {"web-1", "web-2"}
OsNames == {"linux"}
Archs == {"x86_64"}
Versions == {"0.2.1"}

----------------------------------------------------------------------------
(* Floats as exact rationals *)

Abs(n) == IF n < 0 THEN -n ELSE n

RECURSIVE GCD(_, _)
GCD(a, b) == IF b = 0 THEN a ELSE GCD(b, a % b)

\* n / d for d > 0, in lowest terms
Rat(n, d) ==
    LET g == GCD(Abs(n), d)
    IN  IF n >= 0 THEN <<n \div g, d \div g>>
                  ELSE <<-(Abs(n) \div g), d \div g>>

FloatOf(n) == <<n, 1>>
RatAdd(a, b) == Rat(a[1] * b[2] + b[1] * a[2], a[2] * b[2])
RatDivInt(a, n) == Rat(a[1], a[2] * n)
RatMulInt(a, n) == Rat(a[1] * n, a[2])
\* a > n for an integer n
RatGtInt(a, n) == a[1] > n * a[2]

----------------------------------------------------------------------------
(* Data *)

None == <<>>
Some(x) == <<x>>

\* AgentConnection as the transport hands it to the handlers
AgentConnection(id, h, o, a, v, t) ==
    [agent_id |-> id, hostname |-> h, os |-> o, arch |-> a, version |-> v,
     connected_at |-> t]

AgentInfo(agent) ==
    [agent_id |-> agent.agent_id, hostname |-> agent.hostname,
     os |-> agent.os, arch |-> agent.arch, version |-> agent.version,
     connected_at |-> agent.connected_at]

CpuMetrics(u) == [usage_percent |-> u]
MemoryMetrics(t, u) == [total |-> t, used |-> u]

\* Metrics as process_metrics reads it: hostname, optional cpu, optional memory
Metrics(h, c, m) == [hostname |-> h, cpu |-> c, memory |-> m]

AgentMetrics(h, c, mu, mt, mused) ==
    [hostname |-> h, cpu_usage |-> c, memory_usage |-> mu,
     memory_total |-> mt, memory_used |-> mused]

\* The readings an agent may report in one cycle: <<cpu, memory>>
Readings ==
    { <<Some(CpuMetrics(FloatOf(95))), Some(MemoryMetrics(1000, 950))>>,
      <<Some(CpuMetrics(FloatOf(90))), Some(MemoryMetrics(1000, 900))>>,
      <<None, None>> }

MetricsInputs == { Metrics(h, r[1], r[2]) : h \in Hostnames, r \in Readings }

NoMetrics == Metrics("", None, None)

----------------------------------------------------------------------------
(* dict helpers *)

Keys(d) == { d[n].agent_id : n \in 1..Len(d) }

IndexOf(d, id) == CHOOSE n \in 1..Len(d) : d[n].agent_id = id

\* d[id] = info
DictSet(d, id, info) ==
    IF id \in Keys(d)
    THEN [d EXCEPT ![IndexOf(d, id)] = info]
    ELSE Append(d, info)

\* a pop that ignores the key: d.popitem()
DictPopItem(d, id) ==
    IF Len(d) > 0 THEN SubSeq(d, 1, Len(d) - 1) ELSE d

\* d.pop(id, None)
DictPop(d, id) ==
    IF id \in Keys(d)
    THEN LET p == IndexOf(d, id)
         IN  [n \in 1..(Len(d) - 1) |-> IF n < p THEN d[n] ELSE d[n + 1]]
    ELSE d

\* a store that keeps only the stored key: m.clear(); m[k] = v
MapSetOnly(m, k, v) == [x \in {k} |-> v]

\* a pop that empties the map: m.clear()
MapPopAll(m, k) == [x \in {} |-> None]

\* m[k] = v
MapSet(m, k, v) == [x \in DOMAIN m \cup {k} |-> IF x = k THEN v ELSE m[x]]

\* m.pop(k, None)
MapPop(m, k) == [x \in DOMAIN m \ {k} |-> m[x]]
EmptyMap == [x \in {} |-> None]

----------------------------------------------------------------------------
(* MetricsService *)

\* the key process_metrics stores under: the first agent, in dict order,
\* whose hostname is the snapshot's, else the hostname itself
ResolveAgentId(d, hostname) ==
    LET hits == { n \in 1..Len(d) : d[n].hostname = hostname }
    IN  IF hits = {}
        THEN hostname
        ELSE d[CHOOSE n \in hits : \A k \in hits : n <= k].agent_id

\* the fraction used / total, not multiplied by 100
MemoryUsageFraction(metrics) ==
    IF metrics.memory # None /\ metrics.memory[1].total > 0
    THEN Rat(metrics.memory[1].used, metrics.memory[1].total)
    ELSE FloatOf(0)

MemoryUsage(metrics) ==
    IF metrics.memory # None /\ metrics.memory[1].total > 0
    THEN RatMulInt(Rat(metrics.memory[1].used, metrics.memory[1].total), 100)
    ELSE FloatOf(0)

BuildAgentMetrics(metrics) ==
    AgentMetrics(
        metrics.hostname,
        IF metrics.cpu # None THEN metrics.cpu[1].usage_percent ELSE FloatOf(0),
        MemoryUsage(metrics),
        IF metrics.memory # None THEN metrics.memory[1].total ELSE 0,
        IF metrics.memory # None THEN metrics.memory[1].used ELSE 0)

CpuThreshold == 90
MemoryThreshold == 90

Alert(h, kind, value) == [hostname |-> h, kind |-> kind, value |-> value]

\* thresholds compared with >= instead of >
CheckAlertsInclusive(h, entry) ==
    (IF entry.cpu_usage[1] >= CpuThreshold * entry.cpu_usage[2]
     THEN <<Alert(h, "CPU", entry.cpu_usage)>> ELSE <<>>)
    \o
    (IF entry.memory_usage[1] >= MemoryThreshold * entry.memory_usage[2]
     THEN <<Alert(h, "MEMORY", entry.memory_usage)>> ELSE <<>>)

\* the warnings process_metrics logs for the entry it has just cached
CheckAlerts(h, entry) ==
    (IF RatGtInt(entry.cpu_usage, CpuThreshold)
     THEN <<Alert(h, "CPU", entry.cpu_usage)>> ELSE <<>>)
    \o
    (IF RatGtInt(entry.memory_usage, MemoryThreshold)
     THEN <<Alert(h, "MEMORY", entry.memory_usage)>> ELSE <<>>)

get_agents == agents

get_metrics(agent_id) ==
    IF agent_id \in DOMAIN latest_metrics
    THEN Some(latest_metrics[agent_id]) ELSE None

get_all_metrics == latest_metrics

RECURSIVE SumOver(_, _, _)
SumOver(m, ks, field) ==
    IF ks = {} THEN FloatOf(0)
    ELSE LET k == CHOOSE x \in ks : TRUE
         IN  RatAdd(m[k][field], SumOver(m, ks \ {k}, field))

get_average_cpu ==
    IF DOMAIN latest_metrics = {} THEN FloatOf(0)
    ELSE RatDivInt(SumOver(latest_metrics, DOMAIN latest_metrics, "cpu_usage"),
                   Cardinality(DOMAIN latest_metrics))

get_average_memory ==
    IF DOMAIN latest_metrics = {} THEN FloatOf(0)
    ELSE RatDivInt(SumOver(latest_metrics, DOMAIN latest_metrics, "memory_usage"),
                   Cardinality(DOMAIN latest_metrics))

\* agent_count taken from the cache instead of the registry
get_summary_cache_count ==
    [agent_count |-> Cardinality(DOMAIN latest_metrics),
     avg_cpu_usage |-> get_average_cpu,
     avg_memory_usage |-> get_average_memory]

\* GET /api/summary
get_summary ==
    [agent_count |-> Len(get_agents),
     avg_cpu_usage |-> get_average_cpu,
     avg_memory_usage |-> get_average_memory]

----------------------------------------------------------------------------
(* The latest call, for the properties *)

Call(op, id, known, before, metrics) ==
    [op |-> op, agent_id |-> id, known |-> known, before |-> before,
     metrics |-> metrics]

Idle == <<"idle">>

\* no race is set up
NoRace == [id |-> "", todo |-> {}, metrics |-> NoMetrics]

\* Metrics.from_dict has not been called
NotCalled == [status |-> "not called"]
NormIdle ==
    /\ raw = EmptyMap
    /\ heap = <<>>
    /\ result = NotCalled
    /\ result2 = NotCalled

\* no percentage accessor has been read
PctIdle ==
    /\ section = MemoryMetrics(0, 0)
    /\ derived = EmptyMap
NoRead == [agents |-> {}, metrics |-> {}, taken |-> FALSE]

\* preemptive scheduling: a request may be served while a handler runs
LoopPreemptive == TRUE

\* asyncio runs a coroutine to its next await before any other coroutine;
\* the handlers and the endpoints hold no await around the service calls
LoopFree == running = Idle

Init ==
    /\ agents = <<>>
    /\ latest_metrics = EmptyMap
    /\ alerts = <<>>
    /\ clock = 0
    /\ unregisters = 0
    /\ dupSeen = FALSE
    /\ missSeen = FALSE
    /\ live = {}
    /\ last = Call("init", "", FALSE, None, NoMetrics)
    /\ running = Idle
    /\ observed = NoRead
    /\ pending = NoRace
    /\ NormIdle
    /\ PctIdle

----------------------------------------------------------------------------
(* Handlers, each run to completion *)

\* MetricsService.register_agent
register_agent(agent) ==
    /\ agents' = DictSet(agents, agent.agent_id, AgentInfo(agent))
    /\ UNCHANGED latest_metrics

\* an unregister that forgets the cache
unregister_agent_registry_only(agent_id) ==
    /\ agents' = DictPop(agents, agent_id)
    /\ UNCHANGED latest_metrics

\* MetricsService.unregister_agent
unregister_agent(agent_id) ==
    /\ agents' = DictPop(agents, agent_id)
    /\ latest_metrics' = MapPop(latest_metrics, agent_id)

\* an update that returns early on a snapshot with neither section
process_metrics_skip_empty(metrics) ==
    LET agent_id == ResolveAgentId(agents, metrics.hostname)
        agent_metrics == BuildAgentMetrics(metrics)
    IN  IF metrics.cpu = None /\ metrics.memory = None
        THEN /\ alerts' = <<>>
             /\ UNCHANGED <<agents, latest_metrics>>
        ELSE /\ latest_metrics' = MapSet(latest_metrics, agent_id, agent_metrics)
             /\ alerts' = CheckAlerts(metrics.hostname, agent_metrics)
             /\ UNCHANGED agents

\* MetricsService.process_metrics
process_metrics(metrics) ==
    LET agent_id == ResolveAgentId(agents, metrics.hostname)
        agent_metrics == BuildAgentMetrics(metrics)
    IN  /\ latest_metrics' = MapSet(latest_metrics, agent_id, agent_metrics)
        /\ alerts' = CheckAlerts(metrics.hostname, agent_metrics)
        /\ UNCHANGED agents

\* on_connect
OnConnect ==
    /\ LoopFree
    /\ clock < MaxConnects
    /\ \E id \in Ids, h \in Hostnames, o \in OsNames, a \in Archs, v \in Versions :
        /\ register_agent(AgentConnection(id, h, o, a, v, clock))
        /\ dupSeen' = (dupSeen \/ id \in Keys(agents))
        /\ live' = live \cup {id}
        /\ last' = Call("register", id, id \in Keys(agents), None, NoMetrics)
    /\ clock' = clock + 1
    /\ alerts' = <<>>
    /\ observed' = NoRead
    /\ UNCHANGED <<unregisters, missSeen, running>>
    /\ UNCHANGED <<raceVars, normVars, pctVars>>

\* on_disconnect
OnDisconnect ==
    /\ LoopFree
    /\ unregisters < MaxDisconnects
    /\ \E id \in Ids :
        /\ unregister_agent(id)
        /\ missSeen' = (missSeen \/ id \notin Keys(agents))
        /\ live' = live \ {id}
        /\ last' = Call("unregister", id, id \in Keys(agents), get_metrics(id),
                        NoMetrics)
    /\ unregisters' = unregisters + 1
    /\ alerts' = <<>>
    /\ observed' = NoRead
    /\ UNCHANGED <<clock, dupSeen, running>>
    /\ UNCHANGED <<raceVars, normVars, pctVars>>

\* on_metrics
OnMetrics ==
    /\ LoopFree
    /\ \E metrics \in MetricsInputs :
        /\ process_metrics(metrics)
        /\ last' = LET k == ResolveAgentId(agents, metrics.hostname)
                   IN  Call("metrics", k, k \in Keys(agents), get_metrics(k),
                            metrics)
    /\ observed' = NoRead
    /\ UNCHANGED <<clock, unregisters, dupSeen, missSeen, live, running>>
    /\ UNCHANGED <<raceVars, normVars, pctVars>>

Next == OnConnect \/ OnDisconnect \/ OnMetrics

Spec == Init /\ [][Next]_vars

----------------------------------------------------------------------------
(* The event loop: on_disconnect statement by statement, and the read     *)
(* requests of the REST endpoints                                         *)

\* the loop starts on_disconnect(agent)
DisconnectBegin ==
    /\ LoopFree
    /\ unregisters < MaxDisconnects
    /\ \E id \in Ids :
        /\ running' = <<"pop_agents", id>>
        /\ last' = Call("unregister", id, id \in Keys(agents), get_metrics(id),
                        NoMetrics)
        /\ missSeen' = (missSeen \/ id \notin Keys(agents))
    /\ unregisters' = unregisters + 1
    /\ alerts' = <<>>
    /\ observed' = NoRead
    /\ UNCHANGED <<agents, latest_metrics, clock, dupSeen, live>>
    /\ UNCHANGED <<raceVars, normVars, pctVars>>

\* self.agents.pop(agent.agent_id, None)
DisconnectPopAgents ==
    /\ running # Idle /\ running[1] = "pop_agents"
    /\ agents' = DictPop(agents, running[2])
    /\ live' = live \ {running[2]}
    /\ running' = <<"pop_metrics", running[2]>>
    /\ observed' = NoRead
    /\ UNCHANGED <<latest_metrics, alerts, clock, unregisters, dupSeen,
                   missSeen, last>>
    /\ UNCHANGED <<raceVars, normVars, pctVars>>

\* self.latest_metrics.pop(agent.agent_id, None); the coroutine returns
DisconnectPopMetrics ==
    /\ running # Idle /\ running[1] = "pop_metrics"
    /\ latest_metrics' = MapPop(latest_metrics, running[2])
    /\ running' = Idle
    /\ observed' = NoRead
    /\ UNCHANGED <<agents, alerts, clock, unregisters, dupSeen, missSeen,
                   live, last>>
    /\ UNCHANGED <<raceVars, normVars, pctVars>>

\* GET /api/agents, /api/metrics, /api/agents/{id}/metrics, /api/summary:
\* what one request sees of the registry and the cache
Read ==
    /\ LoopFree
    /\ observed' = [agents |-> Keys(get_agents),
                    metrics |-> DOMAIN get_all_metrics,
                    taken |-> TRUE]
    /\ UNCHANGED <<agents, latest_metrics, alerts, clock, unregisters, dupSeen,
                   missSeen, live, last, running>>
    /\ UNCHANGED <<raceVars, normVars, pctVars>>

NextLoop ==
    \/ OnConnect
    \/ OnMetrics
    \/ DisconnectBegin
    \/ DisconnectPopAgents
    \/ DisconnectPopMetrics
    \/ Read

SpecLoop == Init /\ [][NextLoop]_vars

----------------------------------------------------------------------------
(* A disconnect of one agent racing one snapshot of that agent: both      *)
(* handler calls are due, and the event loop runs them in either order    *)

\* the registries in which agent id (hostname h) is connected, alone or with
\* the other agent connected before or after it
RaceRegistries(id, h) ==
    LET me(t) == AgentInfo(AgentConnection(id, h, "linux", "x86_64", "0.2.1", t))
        it(o, g, t) == AgentInfo(AgentConnection(o, g, "linux", "x86_64", "0.2.1", t))
    IN  { <<me(0)>> }
        \cup { <<me(0), it(o, g, 1)>> : o \in Ids \ {id}, g \in Hostnames }
        \cup { <<it(o, g, 0), me(1)>> : o \in Ids \ {id}, g \in Hostnames }

\* the caches such a service can hold for agent id: nothing, or one of its
\* earlier snapshots under the key its hostname resolved to
RaceCaches(d, h) ==
    { EmptyMap }
    \cup { MapSet(EmptyMap, ResolveAgentId(d, h),
                  BuildAgentMetrics(Metrics(h, r[1], r[2]))) : r \in Readings }

InitRace ==
    /\ \E id \in Ids, h \in Hostnames :
        /\ agents \in RaceRegistries(id, h)
        /\ latest_metrics \in RaceCaches(agents, h)
        /\ \E r \in Readings :
            pending = [id |-> id, todo |-> {"unregister", "update"},
                       metrics |-> Metrics(h, r[1], r[2])]
    /\ alerts = <<>>
    /\ clock = Len(agents)
    /\ unregisters = 0
    /\ dupSeen = FALSE
    /\ missSeen = FALSE
    /\ live = Keys(agents)
    /\ last = Call("init", "", FALSE, None, NoMetrics)
    /\ running = Idle
    /\ observed = NoRead
    /\ NormIdle
    /\ PctIdle

\* the loop starts on_disconnect(agent) of the racing agent
RaceDisconnectBegin ==
    /\ LoopFree
    /\ "unregister" \in pending.todo
    /\ pending' = [pending EXCEPT !.todo = @ \ {"unregister"}]
    /\ running' = <<"pop_agents", pending.id>>
    /\ last' = Call("unregister", pending.id, pending.id \in Keys(agents),
                    get_metrics(pending.id), NoMetrics)
    /\ missSeen' = (missSeen \/ pending.id \notin Keys(agents))
    /\ unregisters' = unregisters + 1
    /\ alerts' = <<>>
    /\ observed' = NoRead
    /\ UNCHANGED <<agents, latest_metrics, clock, dupSeen, live>>
    /\ UNCHANGED <<normVars, pctVars>>

\* the loop runs on_metrics(metrics) for the racing agent's snapshot
RaceMetrics ==
    /\ LoopFree
    /\ "update" \in pending.todo
    /\ pending' = [pending EXCEPT !.todo = @ \ {"update"}]
    /\ process_metrics(pending.metrics)
    /\ last' = LET k == ResolveAgentId(agents, pending.metrics.hostname)
               IN  Call("metrics", k, k \in Keys(agents), get_metrics(k),
                        pending.metrics)
    /\ observed' = NoRead
    /\ UNCHANGED <<clock, unregisters, dupSeen, missSeen, live, running>>
    /\ UNCHANGED <<normVars, pctVars>>

NextRace ==
    \/ RaceDisconnectBegin
    \/ DisconnectPopAgents
    \/ DisconnectPopMetrics
    \/ RaceMetrics

SpecRace == InitRace /\ [][NextRace]_vars

RaceDone == pending.id # "" /\ pending.todo = {} /\ running = Idle

----------------------------------------------------------------------------
(* Metrics.from_dict (src/sdk/python/nanolink/metrics.py)                  *)
(*                                                                         *)
(* A raw value that the code inspects (a section, a list, a list element)  *)
(* carries its Python kind; the values that .get only copies (numbers,     *)
(* strings, lists of numbers) are copied as they are.  The list objects    *)
(* that the dataclass instances own and from_dict appends to live in heap, *)
(* a sequence of list contents indexed by address.                         *)

JNull == [kind |-> "null"]
JDict(items) == [kind |-> "dict", items |-> items]
JList(elems) == [kind |-> "list", elems |-> elems]
JStr(s) == [kind |-> "str", value |-> s]

\* bool(v)
Truthy(v) ==
    CASE v.kind = "null" -> FALSE
      [] v.kind = "dict" -> DOMAIN v.items # {}
      [] v.kind = "list" -> Len(v.elems) > 0
      [] v.kind = "str" -> v.value # ""

\* hasattr(v, "get")
HasGet(v) == v.kind = "dict"

\* d.get(key, default) for a dict d
Get(d, key, default) ==
    IF key \in DOMAIN d.items THEN d.items[key] ELSE default

CpuMetricsFrom(cpu_data) ==
    [usage_percent |-> Get(cpu_data, "usagePercent", FloatOf(0)),
     core_count |-> Get(cpu_data, "coreCount", 0),
     per_core_usage |-> Get(cpu_data, "perCoreUsage", <<>>),
     model |-> Get(cpu_data, "model", ""),
     vendor |-> Get(cpu_data, "vendor", ""),
     frequency_mhz |-> Get(cpu_data, "frequencyMhz", FloatOf(0)),
     max_frequency_mhz |-> Get(cpu_data, "maxFrequencyMhz", FloatOf(0)),
     temperature_celsius |-> Get(cpu_data, "temperatureCelsius", None),
     architecture |-> Get(cpu_data, "architecture", "")]

MemoryMetricsFrom(mem_data) ==
    [total |-> Get(mem_data, "total", 0),
     used |-> Get(mem_data, "used", 0),
     available |-> Get(mem_data, "available", 0),
     swap_total |-> Get(mem_data, "swapTotal", 0),
     swap_used |-> Get(mem_data, "swapUsed", 0),
     cached |-> Get(mem_data, "cached", 0),
     buffers |-> Get(mem_data, "buffers", 0),
     memory_type |-> Get(mem_data, "memoryType", ""),
     speed_mhz |-> Get(mem_data, "speedMhz", 0)]

DiskMetricsFrom(disk_data) ==
    [mount_point |-> Get(disk_data, "mountPoint", ""),
     device |-> Get(disk_data, "device", ""),
     fs_type |-> Get(disk_data, "fsType", ""),
     total |-> Get(disk_data, "total", 0),
     used |-> Get(disk_data, "used", 0),
     available |-> Get(disk_data, "available", 0),
     read_bytes_per_sec |-> Get(disk_data, "readBytesPerSec", 0),
     write_bytes_per_sec |-> Get(disk_data, "writeBytesPerSec", 0),
     read_iops |-> Get(disk_data, "readIops", 0),
     write_iops |-> Get(disk_data, "writeIops", 0),
     model |-> Get(disk_data, "model", ""),
     serial |-> Get(disk_data, "serial", ""),
     disk_type |-> Get(disk_data, "diskType", ""),
     temperature_celsius |-> Get(disk_data, "temperatureCelsius", None),
     health_status |-> Get(disk_data, "healthStatus", "")]

NetworkMetricsFrom(net_data) ==
    [interface |-> Get(net_data, "interface", ""),
     rx_bytes_per_sec |-> Get(net_data, "rxBytesPerSec", 0),
     tx_bytes_per_sec |-> Get(net_data, "txBytesPerSec", 0),
     rx_packets_per_sec |-> Get(net_data, "rxPacketsPerSec", 0),
     tx_packets_per_sec |-> Get(net_data, "txPacketsPerSec", 0),
     is_up |-> Get(net_data, "isUp", FALSE),
     mac_address |-> Get(net_data, "macAddress", ""),
     ip_addresses |-> Get(net_data, "ipAddresses", <<>>),
     link_speed_mbps |-> Get(net_data, "linkSpeedMbps", 0),
     interface_type |-> Get(net_data, "interfaceType", "")]

GpuMetricsFrom(gpu_data) ==
    [index |-> Get(gpu_data, "index", 0),
     name |-> Get(gpu_data, "name", ""),
     vendor |-> Get(gpu_data, "vendor", ""),
     usage_percent |-> Get(gpu_data, "usagePercent", FloatOf(0)),
     memory_total |-> Get(gpu_data, "memoryTotal", 0),
     memory_used |-> Get(gpu_data, "memoryUsed", 0),
     temperature_celsius |-> Get(gpu_data, "temperatureCelsius", FloatOf(0)),
     fan_speed_percent |-> Get(gpu_data, "fanSpeedPercent", FloatOf(0)),
     power_draw_watts |-> Get(gpu_data, "powerDrawWatts", FloatOf(0)),
     power_limit_watts |-> Get(gpu_data, "powerLimitWatts", FloatOf(0)),
     clock_core_mhz |-> Get(gpu_data, "clockCoreMhz", 0),
     clock_memory_mhz |-> Get(gpu_data, "clockMemoryMhz", 0),
     driver_version |-> Get(gpu_data, "driverVersion", ""),
     pcie_gen |-> Get(gpu_data, "pcieGen", 0),
     pcie_width |-> Get(gpu_data, "pcieWidth", 0),
     encoder_usage_percent |-> Get(gpu_data, "encoderUsagePercent", FloatOf(0)),
     decoder_usage_percent |-> Get(gpu_data, "decoderUsagePercent", FloatOf(0))]

SystemInfoFrom(sys_data) ==
    [os_name |-> Get(sys_data, "osName", ""),
     os_version |-> Get(sys_data, "osVersion", ""),
     kernel_version |-> Get(sys_data, "kernelVersion", ""),
     hostname |-> Get(sys_data, "hostname", ""),
     boot_time |-> Get(sys_data, "bootTime", 0),
     uptime_seconds |-> Get(sys_data, "uptimeSeconds", 0),
     motherboard_model |-> Get(sys_data, "motherboardModel", ""),
     motherboard_vendor |-> Get(sys_data, "motherboardVendor", ""),
     bios_version |-> Get(sys_data, "biosVersion", "")]

\* the element one list section builds from one raw element
ElementFrom(key, elem) ==
    CASE key = "disks" -> DiskMetricsFrom(elem)
      [] key = "networks" -> NetworkMetricsFrom(elem)
      [] key = "gpus" -> GpuMetricsFrom(elem)

\* a class-level list: the n-th list field of every instance is the same
\* list object
shared_default_list(h, n) == n

\* field(default_factory=list): the address of the n-th list field of a new
\* instance, a fresh list
default_factory_list(h, n) == Len(h) + n

\* the heap once the lists at addresses a, a+1, a+2 exist
HeapWith(h, a) ==
    [n \in 1..(IF a + 2 > Len(h) THEN a + 2 ELSE Len(h)) |->
        IF n <= Len(h) THEN h[n] ELSE <<>>]

\* cls(): the state of from_dict after its first statement
NewMetrics(h) ==
    [heap |-> HeapWith(h, default_factory_list(h, 1)),
     error |-> "",
     metrics |-> [timestamp |-> 0, hostname |-> "", cpu |-> None,
                  memory |-> None,
                  disks |-> default_factory_list(h, 1),
                  networks |-> default_factory_list(h, 2),
                  gpus |-> default_factory_list(h, 3),
                  system |-> None, load_average |-> <<>>]]

Raise(st, error) == [st EXCEPT !.error = error]

\* metrics.timestamp = data.get("timestamp", 0);
\* metrics.hostname = data.get("hostname", "")
SetRequired(st, data) ==
    [st EXCEPT !.metrics.timestamp =
                   IF "timestamp" \in DOMAIN data THEN data["timestamp"] ELSE 0,
               !.metrics.hostname =
                   IF "hostname" \in DOMAIN data THEN data["hostname"] ELSE ""]

\* the section set whenever its key holds a mapping, an empty one included
SetSectionIfPresent(st, data, key) ==
    IF st.error # "" THEN st
    ELSE IF ~(key \in DOMAIN data /\ HasGet(data[key])) THEN st
    ELSE CASE key = "cpu" ->
                [st EXCEPT !.metrics.cpu = Some(CpuMetricsFrom(data[key]))]
           [] key = "memory" ->
                [st EXCEPT !.metrics.memory = Some(MemoryMetricsFrom(data[key]))]
           [] key = "system" ->
                [st EXCEPT !.metrics.system = Some(SystemInfoFrom(data[key]))]

\* if key in data and data[key]: metrics.<field> = <Section>(...get...)
SetSection(st, data, key) ==
    IF st.error # "" THEN st
    ELSE IF ~(key \in DOMAIN data /\ Truthy(data[key])) THEN st
    ELSE IF ~HasGet(data[key]) THEN Raise(st, "AttributeError")
    ELSE CASE key = "cpu" ->
                [st EXCEPT !.metrics.cpu = Some(CpuMetricsFrom(data[key]))]
           [] key = "memory" ->
                [st EXCEPT !.metrics.memory = Some(MemoryMetricsFrom(data[key]))]
           [] key = "system" ->
                [st EXCEPT !.metrics.system = Some(SystemInfoFrom(data[key]))]

\* for elem in elems: <list>.append(<Element>(...elem.get...))
RECURSIVE AppendAll(_, _, _, _)
AppendAll(st, key, addr, elems) ==
    IF elems = <<>> THEN st
    ELSE IF ~HasGet(Head(elems)) THEN Raise(st, "AttributeError")
    ELSE AppendAll(
            [st EXCEPT !.heap[addr] = Append(@, ElementFrom(key, Head(elems)))],
            key, addr, Tail(elems))

\* if key in data: for elem in data[key]: ...
SetList(st, data, key) ==
    IF st.error # "" THEN st
    ELSE IF key \notin DOMAIN data THEN st
    ELSE IF data[key].kind = "null" THEN Raise(st, "TypeError")
    ELSE IF data[key].kind # "list" THEN
            \* iterating a dict gives its keys, a str its characters: strs
            IF Truthy(data[key]) THEN Raise(st, "AttributeError") ELSE st
    ELSE AppendAll(st, key, st.metrics[key], data[key].elems)

\* metrics.load_average = data.get("loadAverage", [])
SetLoadAverage(st, data) ==
    IF st.error # "" THEN st
    ELSE [st EXCEPT !.metrics.load_average =
            IF "loadAverage" \in DOMAIN data THEN data["loadAverage"] ELSE <<>>]

\* Metrics.from_dict(data) on heap h: the heap it leaves and what it
\* returns or raises
from_dict(h, data) ==
    LET s0 == SetRequired(NewMetrics(h), data)
        s1 == SetSection(s0, data, "cpu")
        s2 == SetSection(s1, data, "memory")
        s3 == SetList(s2, data, "disks")
        s4 == SetList(s3, data, "networks")
        s5 == SetList(s4, data, "gpus")
        s6 == SetSection(s5, data, "system")
        s7 == SetLoadAverage(s6, data)
    IN  [heap |-> s7.heap,
         outcome |-> IF s7.error # ""
                     THEN [status |-> "raised", error |-> s7.error]
                     ELSE [status |-> "ok", metrics |-> s7.metrics]]

\* a returned Metrics with its lists read from the heap
View(h, m) ==
    [m EXCEPT !.disks = h[m.disks], !.networks = h[m.networks],
              !.gpus = h[m.gpus]]

----------------------------------------------------------------------------
(* SpecNorm: from_dict applied twice to one raw record                     *)

\* how one key of the raw record may appear: absent, or one of its values
Absent == EmptyMap

GoodDisk == JDict(("mountPoint" :> "/") @@ ("total" :> 1000) @@ ("used" :> 400))
BareDisk == JDict("device" :> "sdb")
GoodNetwork == JDict(("interface" :> "eth0") @@ ("isUp" :> TRUE))
GoodGpu == JDict(("index" :> 0) @@ ("memoryTotal" :> 8) @@ ("memoryUsed" :> 2))

TimestampInputs == { Absent, "timestamp" :> 1700000000 }
HostnameInputs == { Absent } \cup { "hostname" :> h : h \in {"web-1"} }
CpuInputs ==
    { Absent } \cup
    { "cpu" :> v : v \in { JNull, JDict(EmptyMap),
                           JDict(("usagePercent" :> Rat(95, 1)) @@ ("coreCount" :> 4)),
                           JDict("model" :> "EPYC") } }
MemoryInputs ==
    { Absent } \cup
    { "memory" :> v : v \in { JDict(EmptyMap),
                              JDict(("total" :> 1000) @@ ("used" :> 950)) } }
DisksInputs ==
    { Absent } \cup
    { "disks" :> JList(l) : l \in { <<>>, <<GoodDisk, BareDisk>>,
                                    <<GoodDisk, JStr("sda"), BareDisk>> } }
NetworksInputs ==
    { Absent } \cup
    { "networks" :> JList(l) : l \in { <<GoodNetwork>>, <<JNull>> } }
GpusInputs ==
    { Absent } \cup
    { "gpus" :> JList(l) : l \in { <<GoodGpu>>, <<GoodGpu, JList(<<>>)>> } }
SystemInputs ==
    { Absent } \cup
    { "system" :> v : v \in { JNull, JDict("osName" :> "Linux") } }
LoadAverageInputs == { Absent, "loadAverage" :> <<Rat(1, 2), Rat(1, 4)>> }

RawRecords ==
    { t @@ h @@ c @@ m @@ d @@ n @@ g @@ s @@ l :
        t \in TimestampInputs, h \in HostnameInputs, c \in CpuInputs,
        m \in MemoryInputs, d \in DisksInputs, n \in NetworksInputs,
        g \in GpusInputs, s \in SystemInputs, l \in LoadAverageInputs }

ServiceIdle ==
    /\ agents = <<>>
    /\ latest_metrics = EmptyMap
    /\ alerts = <<>>
    /\ clock = 0
    /\ unregisters = 0
    /\ dupSeen = FALSE
    /\ missSeen = FALSE
    /\ live = {}
    /\ last = Call("init", "", FALSE, None, NoMetrics)
    /\ running = Idle
    /\ observed = NoRead

InitNorm ==
    /\ raw \in RawRecords
    /\ heap = <<>>
    /\ result = NotCalled
    /\ result2 = NotCalled
    /\ ServiceIdle
    /\ pending = NoRace
    /\ PctIdle

\* result = Metrics.from_dict(raw)
Normalize ==
    /\ result = NotCalled
    /\ LET r == from_dict(heap, raw)
       IN  /\ heap' = r.heap
           /\ result' = r.outcome
    /\ UNCHANGED <<raw, result2>>
    /\ UNCHANGED <<serviceVars, raceVars, pctVars>>

\* result2 = Metrics.from_dict(raw), the first result still held
NormalizeAgain ==
    /\ result # NotCalled
    /\ result2 = NotCalled
    /\ LET r == from_dict(heap, raw)
       IN  /\ heap' = r.heap
           /\ result2' = r.outcome
    /\ UNCHANGED <<raw, result>>
    /\ UNCHANGED <<serviceVars, raceVars, pctVars>>

NextNorm == Normalize \/ NormalizeAgain

SpecNorm == InitNorm /\ [][NextNorm]_vars

----------------------------------------------------------------------------
(* SpecPct: the derived percentages of one (total, used) pair              *)

\* the totals and used values range over -MaxBytes..MaxBytes
MaxBytes == 2

Returned(v) == [status |-> "ok", value |-> v]
ZeroDivisionError == [status |-> "raised", error |-> "ZeroDivisionError"]

\* a / b
TrueDiv(a, b) ==
    IF b = 0 THEN ZeroDivisionError
    ELSE Returned(IF b > 0 THEN Rat(a, b) ELSE Rat(-a, -b))

\* q * 100
TimesHundred(q) ==
    IF q.status = "raised" THEN q ELSE Returned(RatMulInt(q.value, 100))

\* the accessor without its zero test
usage_percent_unguarded(self) == TimesHundred(TrueDiv(self.used, self.total))

\* MemoryMetrics.usage_percent
usage_percent(self) ==
    IF self.total = 0 THEN Returned(FloatOf(0))
    ELSE TimesHundred(TrueDiv(self.used, self.total))

\* MemoryMetrics.swap_usage_percent
swap_usage_percent(self) ==
    IF self.swap_total = 0 THEN Returned(FloatOf(0))
    ELSE TimesHundred(TrueDiv(self.swap_used, self.swap_total))

\* DiskMetrics.usage_percent
disk_usage_percent(self) ==
    IF self.total = 0 THEN Returned(FloatOf(0))
    ELSE TimesHundred(TrueDiv(self.used, self.total))

\* GpuMetrics.memory_usage_percent
memory_usage_percent(self) ==
    IF self.memory_total = 0 THEN Returned(FloatOf(0))
    ELSE TimesHundred(TrueDiv(self.memory_used, self.memory_total))

PctHostname == "web-1"

InitPct ==
    /\ \E t \in -MaxBytes..MaxBytes, u \in -MaxBytes..MaxBytes :
        section = MemoryMetrics(t, u)
    /\ derived = EmptyMap
    /\ ServiceIdle
    /\ pending = NoRace
    /\ NormIdle

\* derived with the value an accessor returned, or the error it raised
Record(name, outcome) ==
    /\ name \notin DOMAIN derived
    /\ derived' = derived @@ (name :> outcome)
    /\ UNCHANGED section
    /\ UNCHANGED <<raceVars, normVars>>

ReadUsagePercent ==
    /\ Record("usage_percent", usage_percent(section))
    /\ UNCHANGED serviceVars

ReadSwapUsagePercent ==
    /\ Record("swap_usage_percent",
              swap_usage_percent([swap_total |-> section.total,
                                  swap_used |-> section.used]))
    /\ UNCHANGED serviceVars

ReadDiskUsagePercent ==
    /\ Record("disk_usage_percent", disk_usage_percent(section))
    /\ UNCHANGED serviceVars

ReadGpuMemoryUsagePercent ==
    /\ Record("memory_usage_percent",
              memory_usage_percent([memory_total |-> section.total,
                                    memory_used |-> section.used]))
    /\ UNCHANGED serviceVars

\* process_metrics of a snapshot whose memory section is the pair
CacheUpdate ==
    LET metrics == Metrics(PctHostname, None, Some(section))
    IN  /\ Record("memory_usage", Returned(MemoryUsage(metrics)))
        /\ process_metrics(metrics)
        /\ UNCHANGED <<clock, unregisters, dupSeen, missSeen, live, last,
                       running, observed>>

NextPct ==
    \/ ReadUsagePercent
    \/ ReadSwapUsagePercent
    \/ ReadDiskUsagePercent
    \/ ReadGpuMemoryUsagePercent
    \/ CacheUpdate

SpecPct == InitPct /\ [][NextPct]_vars

----------------------------------------------------------------------------
(* Properties *)

AgentOf(id) == agents[IndexOf(agents, id)]

\* C1: every key of latest_metrics is the identity of a registered agent.
\* process_metrics falls back to the hostname as the key when no agent has
\* the snapshot's hostname, so the code does not keep this.
C1_CacheKeysRegistered == DOMAIN latest_metrics \subseteq Keys(agents)

\* C2: a snapshot that resolves to no registered agent leaves the cache as
\* it was (and creates no entry).
C2_UnregisteredUpdateNoOp ==
    [][(OnMetrics /\ ~last'.known) => latest_metrics' = latest_metrics]_vars

\* C3: registering an identity that is already registered leaves the
\* registry and the cache unchanged.
C3_DuplicateRegisterRejected ==
    [][(OnConnect /\ last'.known)
         => (agents' = agents /\ latest_metrics' = latest_metrics)]_vars

\* C4: among the registered agents that share a hostname, resolution picks
\* the most recently connected one.
C4_ResolveMostRecent ==
    \A h \in Hostnames :
        LET hits == { n \in 1..Len(agents) : agents[n].hostname = h }
        IN  hits # {} =>
              \A n \in hits :
                agents[n].connected_at
                  <= AgentOf(ResolveAgentId(agents, h)).connected_at

\* C5 as stated: without duplicate registrations, the agent list holds
\* (registers - unregisters) agents, exactly the live identities.
C5_ListSizeIsNetCount ==
    ~dupSeen =>
        /\ Len(get_agents) = clock - unregisters
        /\ Keys(get_agents) = live

\* C5 amended: the same, for sequences in which moreover every unregister
\* names a registered identity.
C5_ListSizeIsNetCountOfHits ==
    (~dupSeen /\ ~missSeen) =>
        /\ Len(get_agents) = clock - unregisters
        /\ Keys(get_agents) = live

C5_Witness ==
    /\ ~dupSeen /\ ~missSeen
    /\ clock = 2 /\ unregisters = 1
    /\ Len(get_agents) = 1

\* C6: after unregister of an identity that had cached metrics, get of that
\* identity is None and the agent list does not hold it.
C6_UnregisterRemovesBoth ==
    (last.op = "unregister" /\ last.before # None) =>
        /\ get_metrics(last.agent_id) = None
        /\ \A n \in 1..Len(get_agents) : get_agents[n].agent_id # last.agent_id

C6_Witness ==
    /\ last.op = "unregister" /\ last.known /\ last.before # None
    /\ Len(get_agents) = 1

\* C7: after process_metrics for a snapshot that resolves to a registered
\* identity, get of that identity is the entry built from that snapshot:
\* cpu_usage is the snapshot's usage_percent, memory_total and memory_used
\* its raw values, memory_usage = used / total * 100; the 95 / 950 of 1000
\* snapshot gives 95.0 and 95.0 and exactly a CPU and a memory alert.
C7_UpdateCachesSnapshot ==
    (last.op = "metrics" /\ last.known) =>
        /\ get_metrics(last.agent_id) # None
        /\ LET e == get_metrics(last.agent_id)[1]
               m == last.metrics
           IN  /\ e.hostname = m.hostname
               /\ m.cpu # None => e.cpu_usage = m.cpu[1].usage_percent
               /\ m.memory # None =>
                    /\ e.memory_total = m.memory[1].total
                    /\ e.memory_used = m.memory[1].used
                    /\ m.memory[1].total > 0 =>
                         e.memory_usage[1] * m.memory[1].total
                           = 100 * m.memory[1].used * e.memory_usage[2]
               /\ (m.cpu = Some(CpuMetrics(FloatOf(95)))
                   /\ m.memory = Some(MemoryMetrics(1000, 950))) =>
                    /\ e.cpu_usage = FloatOf(95)
                    /\ e.memory_usage = FloatOf(95)
                    /\ Len(alerts) = 2
                    /\ { alerts[n].kind : n \in 1..2 } = {"CPU", "MEMORY"}

C7_Witness ==
    /\ last.op = "metrics" /\ last.known /\ last.agent_id = "A1"
    /\ last.metrics = Metrics("web-1", Some(CpuMetrics(FloatOf(95))),
                              Some(MemoryMetrics(1000, 950)))
    /\ last.before # None /\ last.before # get_metrics("A1")
    /\ get_metrics("A1")[1].memory_usage = FloatOf(95)
    /\ Len(alerts) = 2

RECURSIVE TotalOf(_, _)
TotalOf(ks, field) ==
    IF ks = {} THEN FloatOf(0)
    ELSE LET k == CHOOSE x \in ks : TRUE
         IN  RatAdd(TotalOf(ks \ {k}, field), latest_metrics[k][field])

\* C8: the summary's agent_count is the number of registered agents, and
\* each average times the number of cache entries is the total over the
\* cache entries; with an empty cache both averages are 0.0.
C8_SummaryIsCountAndMeans ==
    LET n == Cardinality(DOMAIN latest_metrics)
        s == get_summary
    IN  /\ s.agent_count = Cardinality(Keys(agents))
        /\ n = 0 => (s.avg_cpu_usage = FloatOf(0) /\ s.avg_memory_usage = FloatOf(0))
        /\ n > 0 =>
             /\ RatMulInt(s.avg_cpu_usage, n)
                  = TotalOf(DOMAIN latest_metrics, "cpu_usage")
             /\ RatMulInt(s.avg_memory_usage, n)
                  = TotalOf(DOMAIN latest_metrics, "memory_usage")

C8_Witness ==
    /\ Cardinality(DOMAIN latest_metrics) = 3
    /\ Len(agents) = 2
    /\ \E k \in Ids : k \in Keys(agents) /\ k \notin DOMAIN latest_metrics
    /\ get_summary.avg_cpu_usage[2] # 1

AlertsOfKind(kind) == { n \in 1..Len(alerts) : alerts[n].kind = kind }

\* C9: every process_metrics call logs one CPU alert iff the cpu_usage it
\* cached is > 90 and one memory alert iff the memory_usage it cached is
\* > 90, whatever the entry it replaced.
C9_AlertPerBreachingUpdate ==
    last.op = "metrics" =>
        LET e == latest_metrics[last.agent_id]
        IN  /\ Cardinality(AlertsOfKind("CPU"))
                 = (IF e.cpu_usage[1] > 90 * e.cpu_usage[2] THEN 1 ELSE 0)
            /\ Cardinality(AlertsOfKind("MEMORY"))
                 = (IF e.memory_usage[1] > 90 * e.memory_usage[2] THEN 1 ELSE 0)
            /\ Len(alerts)
                 = Cardinality(AlertsOfKind("CPU")) + Cardinality(AlertsOfKind("MEMORY"))
            /\ \A n \in 1..Len(alerts) : alerts[n].hostname = last.metrics.hostname

C9_Witness ==
    /\ last.op = "metrics"
    /\ last.before # None
    /\ RatGtInt(last.before[1].cpu_usage, 90)
    /\ RatGtInt(last.before[1].memory_usage, 90)
    /\ Len(alerts) = 2

\* C10: no read request sees an identity in the cache and not in the
\* registry: the state between the two pops of unregister_agent is never
\* served.
C10_ReadersSeeUnregisterWhole ==
    observed.taken =>
        \A id \in Ids : id \in observed.metrics => id \in observed.agents

C10_Witness ==
    /\ observed.taken
    /\ last.op = "unregister" /\ last.known /\ last.before # None
    /\ last.agent_id \notin observed.agents
    /\ last.agent_id \notin observed.metrics

\* C11: when an unregister and an update of the same agent race, every
\* order ends with the agent either removed from registry and cache or
\* registered with the latest snapshot cached, and with no cache entry
\* that has no registry entry.
C11_RaceEndsRemovedOrLatest ==
    RaceDone =>
        /\ \/ /\ pending.id \notin Keys(agents)
              /\ pending.id \notin DOMAIN latest_metrics
           \/ /\ pending.id \in Keys(agents)
              /\ get_metrics(pending.id) = Some(BuildAgentMetrics(pending.metrics))
        /\ DOMAIN latest_metrics \subseteq Keys(agents)

\* C12: a raw record that lacks a hostname or a timestamp is rejected by
\* from_dict: the call reports a failure instead of returning a snapshot,
\* and the cache is left as it was.
C12_MissingRequiredRejected ==
    (result # NotCalled
        /\ ("hostname" \notin DOMAIN raw \/ "timestamp" \notin DOMAIN raw))
    => /\ result.status = "raised"
       /\ latest_metrics = EmptyMap

ListKeys == {"disks", "networks", "gpus"}

\* the raw elements under a list key, none when the key is absent
ListOf(data, key) == IF key \in DOMAIN data THEN data[key].elems ELSE <<>>

\* some element of some list is not a mapping
HasMalformed(data) ==
    \E key \in ListKeys :
        \E i \in 1..Len(ListOf(data, key)) : ~HasGet(ListOf(data, key)[i])

\* the elements built from the mappings of a list, in order
NormalizedOf(data, key) ==
    LET good == SelectSeq(ListOf(data, key), HasGet)
    IN  [i \in 1..Len(good) |-> ElementFrom(key, good[i])]

\* C13: when an element of the disks, networks or gpus list is malformed,
\* from_dict drops that element, normalizes the others and returns the
\* snapshot.
C13_MalformedElementDropped ==
    (result # NotCalled /\ HasMalformed(raw))
    => /\ result.status = "ok"
       /\ \A key \in ListKeys :
            heap[result.metrics[key]] = NormalizedOf(raw, key)

\* the wire name that from_dict reads each field from, per raw key
WireNames ==
    [cpu |->
        [usage_percent |-> "usagePercent",
         core_count |-> "coreCount",
         per_core_usage |-> "perCoreUsage",
         model |-> "model",
         vendor |-> "vendor",
         frequency_mhz |-> "frequencyMhz",
         max_frequency_mhz |-> "maxFrequencyMhz",
         temperature_celsius |-> "temperatureCelsius",
         architecture |-> "architecture"],
     memory |->
        [total |-> "total",
         used |-> "used",
         available |-> "available",
         swap_total |-> "swapTotal",
         swap_used |-> "swapUsed",
         cached |-> "cached",
         buffers |-> "buffers",
         memory_type |-> "memoryType",
         speed_mhz |-> "speedMhz"],
     disks |->
        [mount_point |-> "mountPoint",
         device |-> "device",
         fs_type |-> "fsType",
         total |-> "total",
         used |-> "used",
         available |-> "available",
         read_bytes_per_sec |-> "readBytesPerSec",
         write_bytes_per_sec |-> "writeBytesPerSec",
         read_iops |-> "readIops",
         write_iops |-> "writeIops",
         model |-> "model",
         serial |-> "serial",
         disk_type |-> "diskType",
         temperature_celsius |-> "temperatureCelsius",
         health_status |-> "healthStatus"],
     networks |->
        [interface |-> "interface",
         rx_bytes_per_sec |-> "rxBytesPerSec",
         tx_bytes_per_sec |-> "txBytesPerSec",
         rx_packets_per_sec |-> "rxPacketsPerSec",
         tx_packets_per_sec |-> "txPacketsPerSec",
         is_up |-> "isUp",
         mac_address |-> "macAddress",
         ip_addresses |-> "ipAddresses",
         link_speed_mbps |-> "linkSpeedMbps",
         interface_type |-> "interfaceType"],
     gpus |->
        [index |-> "index",
         name |-> "name",
         vendor |-> "vendor",
         usage_percent |-> "usagePercent",
         memory_total |-> "memoryTotal",
         memory_used |-> "memoryUsed",
         temperature_celsius |-> "temperatureCelsius",
         fan_speed_percent |-> "fanSpeedPercent",
         power_draw_watts |-> "powerDrawWatts",
         power_limit_watts |-> "powerLimitWatts",
         clock_core_mhz |-> "clockCoreMhz",
         clock_memory_mhz |-> "clockMemoryMhz",
         driver_version |-> "driverVersion",
         pcie_gen |-> "pcieGen",
         pcie_width |-> "pcieWidth",
         encoder_usage_percent |-> "encoderUsagePercent",
         decoder_usage_percent |-> "decoderUsagePercent"],
     system |->
        [os_name |-> "osName",
         os_version |-> "osVersion",
         kernel_version |-> "kernelVersion",
         hostname |-> "hostname",
         boot_time |-> "bootTime",
         uptime_seconds |-> "uptimeSeconds",
         motherboard_model |-> "motherboardModel",
         motherboard_vendor |-> "motherboardVendor",
         bios_version |-> "biosVersion"]]

\* the default each dataclass declares for each field, per raw key
FieldDefaults ==
    [cpu |->
        [usage_percent |-> FloatOf(0),
         core_count |-> 0,
         per_core_usage |-> <<>>,
         model |-> "",
         vendor |-> "",
         frequency_mhz |-> FloatOf(0),
         max_frequency_mhz |-> FloatOf(0),
         temperature_celsius |-> None,
         architecture |-> ""],
     memory |->
        [total |-> 0,
         used |-> 0,
         available |-> 0,
         swap_total |-> 0,
         swap_used |-> 0,
         cached |-> 0,
         buffers |-> 0,
         memory_type |-> "",
         speed_mhz |-> 0],
     disks |->
        [mount_point |-> "",
         device |-> "",
         fs_type |-> "",
         total |-> 0,
         used |-> 0,
         available |-> 0,
         read_bytes_per_sec |-> 0,
         write_bytes_per_sec |-> 0,
         read_iops |-> 0,
         write_iops |-> 0,
         model |-> "",
         serial |-> "",
         disk_type |-> "",
         temperature_celsius |-> None,
         health_status |-> ""],
     networks |->
        [interface |-> "",
         rx_bytes_per_sec |-> 0,
         tx_bytes_per_sec |-> 0,
         rx_packets_per_sec |-> 0,
         tx_packets_per_sec |-> 0,
         is_up |-> FALSE,
         mac_address |-> "",
         ip_addresses |-> <<>>,
         link_speed_mbps |-> 0,
         interface_type |-> ""],
     gpus |->
        [index |-> 0,
         name |-> "",
         vendor |-> "",
         usage_percent |-> FloatOf(0),
         memory_total |-> 0,
         memory_used |-> 0,
         temperature_celsius |-> FloatOf(0),
         fan_speed_percent |-> FloatOf(0),
         power_draw_watts |-> FloatOf(0),
         power_limit_watts |-> FloatOf(0),
         clock_core_mhz |-> 0,
         clock_memory_mhz |-> 0,
         driver_version |-> "",
         pcie_gen |-> 0,
         pcie_width |-> 0,
         encoder_usage_percent |-> FloatOf(0),
         decoder_usage_percent |-> FloatOf(0)],
     system |->
        [os_name |-> "",
         os_version |-> "",
         kernel_version |-> "",
         hostname |-> "",
         boot_time |-> 0,
         uptime_seconds |-> 0,
         motherboard_model |-> "",
         motherboard_vendor |-> "",
         bios_version |-> ""]]

SectionKeys == {"cpu", "memory", "system"}

\* obj has the fields of its dataclass, each read from the raw mapping d
\* under its wire name or, when d lacks it, equal to the declared default
FieldsAgree(obj, d, key) ==
    /\ DOMAIN obj = DOMAIN FieldDefaults[key]
    /\ \A f \in DOMAIN obj :
        obj[f] = IF WireNames[key][f] \in DOMAIN d.items
                 THEN d.items[WireNames[key][f]]
                 ELSE FieldDefaults[key][f]

\* a raw record with hostname and timestamp whose list elements are mappings
ValidRaw(data) ==
    /\ {"hostname", "timestamp"} \subseteq DOMAIN data
    /\ ~HasMalformed(data)

\* C14: from_dict succeeds on every valid raw record whatever optional
\* sections it has; cpu, memory and system are present in the result exactly
\* when their key is present and neither null nor empty, absent list keys
\* give empty lists, and every field missing from the input has its default.
C14_OptionalSectionsAndDefaults ==
    (result # NotCalled /\ ValidRaw(raw))
    => /\ result.status = "ok"
       /\ LET m == result.metrics
          IN  /\ m.timestamp = raw["timestamp"]
              /\ m.hostname = raw["hostname"]
              /\ \A key \in SectionKeys :
                    IF key \in DOMAIN raw /\ Truthy(raw[key])
                    THEN /\ m[key] # None
                         /\ FieldsAgree(m[key][1], raw[key], key)
                    ELSE m[key] = None
              /\ \A key \in ListKeys :
                    /\ Len(heap[m[key]]) = Len(ListOf(raw, key))
                    /\ \A i \in 1..Len(ListOf(raw, key)) :
                        FieldsAgree(heap[m[key]][i], ListOf(raw, key)[i], key)
              /\ m.load_average = IF "loadAverage" \in DOMAIN raw
                                  THEN raw["loadAverage"] ELSE <<>>

\* a valid record with an empty cpu mapping, a partly filled memory section,
\* no system key and no disks key has been normalized
C14_Witness ==
    /\ result # NotCalled
    /\ ValidRaw(raw)
    /\ "cpu" \in DOMAIN raw
    /\ raw["cpu"].kind = "dict"
    /\ ~Truthy(raw["cpu"])
    /\ "memory" \in DOMAIN raw
    /\ Truthy(raw["memory"])
    /\ "system" \notin DOMAIN raw
    /\ "disks" \notin DOMAIN raw
    /\ "gpus" \in DOMAIN raw
    /\ result.status = "ok"
    /\ result.metrics.cpu = None
    /\ result.metrics.memory # None
    /\ result.metrics.memory[1].available = 0

\* C16: a second from_dict of the same raw record returns a snapshot
\* structurally equal to the first one, and leaves the first one as it was
\* (the calls share no mutable state).
C16_NormalizeTwiceEqualAndUnshared ==
    [][(NormalizeAgain /\ result.status = "ok")
        => /\ result2'.status = "ok"
           /\ View(heap', result2'.metrics) = View(heap', result.metrics)
           /\ View(heap', result.metrics) = View(heap, result.metrics)]_vars

\* a record with two disks and a gpu has been normalized twice, into
\* snapshots that own different lists
C16_Witness ==
    /\ result.status = "ok"
    /\ result2 # NotCalled
    /\ result2.status = "ok"
    /\ Len(heap[result.metrics.disks]) = 2
    /\ Len(heap[result2.metrics.gpus]) = 1
    /\ result.metrics.disks # result2.metrics.disks

DerivedNames ==
    {"usage_percent", "swap_usage_percent", "disk_usage_percent",
     "memory_usage_percent", "memory_usage"}

\* C15: every derived percentage (memory, swap, disk and GPU memory usage,
\* and the memory_usage of a cache update) is computed without a division
\* error, and is 0.0 when the total it divides by is 0, whatever is used.
C15_ZeroTotalGivesZero ==
    /\ \A name \in DOMAIN derived :
        /\ derived[name].status = "ok"
        /\ section.total = 0 => derived[name].value = FloatOf(0)
    /\ (section.total = 0 /\ "memory_usage" \in DOMAIN derived)
        => latest_metrics[PctHostname].memory_usage = FloatOf(0)

\* all five percentages have been computed from a zero total and a used
\* value that is not zero
C15_Witness ==
    /\ section.total = 0
    /\ section.used # 0
    /\ DOMAIN derived = DerivedNames

\* C18: the memory_usage that process_metrics caches for a snapshot with a
\* memory section equals that section's MemoryMetrics.usage_percent, for
\* every total and used, totals of zero and below included.
C18_CachedUsageEqualsAccessor ==
    {"usage_percent", "memory_usage"} \subseteq DOMAIN derived
    => derived["usage_percent"] =
            Returned(latest_metrics[PctHostname].memory_usage)

\* d.get(j) of the registry, and m.get(k) of the cache
EntryIn(d, j) == IF j \in Keys(d) THEN Some(d[IndexOf(d, j)]) ELSE None
CachedIn(m, k) == IF k \in DOMAIN m THEN Some(m[k]) ELSE None

AllKeys == Ids \cup Hostnames

\* C17: register(i) and unregister(i) leave the registry entry and the cache
\* entry of every other identity unchanged; process_metrics leaves the
\* registry unchanged and changes the cache entry of no key but the one the
\* snapshot resolves to.
C17_OtherAgentsUntouched ==
    [][/\ (OnConnect \/ OnDisconnect)
            => \A j \in AllKeys \ {last'.agent_id} :
                /\ EntryIn(agents', j) = EntryIn(agents, j)
                /\ CachedIn(latest_metrics', j) = CachedIn(latest_metrics, j)
       /\ OnMetrics
            => /\ agents' = agents
               /\ last'.agent_id = ResolveAgentId(agents, last'.metrics.hostname)
               /\ \A k \in AllKeys \ {last'.agent_id} :
                    CachedIn(latest_metrics', k) = CachedIn(latest_metrics, k)
      ]_vars

\* a registered agent with a cache entry has been unregistered while
\* another agent is registered and has a cache entry of its own
C17_Witness ==
    /\ last.op = "unregister"
    /\ last.known
    /\ last.before # None
    /\ \E j \in Keys(agents) : j \in DOMAIN latest_metrics

\* C19: an update whose snapshot has no cpu section caches cpu_usage 0.0 and
\* logs no CPU alert; one whose snapshot has no memory section caches
\* memory_usage 0.0, memory_total 0 and memory_used 0 and logs no memory
\* alert; the entry replaces the key's previous one, and its zeros are
\* counted in the averages (each average times the number of entries is the
\* total over all entries, this one included).
C19_AbsentSectionsCachedAsZero ==
    (last.op = "metrics"
        /\ (last.metrics.cpu = None \/ last.metrics.memory = None))
    => /\ last.agent_id \in DOMAIN latest_metrics
       /\ LET e == latest_metrics[last.agent_id]
              n == Cardinality(DOMAIN latest_metrics)
          IN  /\ e.hostname = last.metrics.hostname
              /\ last.metrics.cpu = None
                    => /\ e.cpu_usage = FloatOf(0)
                       /\ AlertsOfKind("CPU") = {}
              /\ last.metrics.memory = None
                    => /\ e.memory_usage = FloatOf(0)
                       /\ e.memory_total = 0
                       /\ e.memory_used = 0
                       /\ AlertsOfKind("MEMORY") = {}
              /\ RatMulInt(get_average_cpu, n)
                    = TotalOf(DOMAIN latest_metrics, "cpu_usage")
              /\ RatMulInt(get_average_memory, n)
                    = TotalOf(DOMAIN latest_metrics, "memory_usage")

\* a snapshot with neither section has replaced an entry with cpu_usage 95
\* while another key still holds a breaching entry
C19_Witness ==
    /\ last.op = "metrics"
    /\ last.metrics.cpu = None
    /\ last.metrics.memory = None
    /\ last.before # None
    /\ last.before[1].cpu_usage = FloatOf(95)
    /\ Cardinality(DOMAIN latest_metrics) = 2
    /\ get_average_cpu = Rat(95, 2)

\* C20: unregister of an identity that is not registered completes and
\* leaves registry and cache as they were; and after any unregister a
\* second unregister of the same identity changes nothing.
C20_UnregisterUnknownNoOp ==
    [][OnDisconnect
        => /\ ~last'.known
                => (agents' = agents /\ latest_metrics' = latest_metrics)
           /\ DictPop(agents', last'.agent_id) = agents'
           /\ MapPop(latest_metrics', last'.agent_id) = latest_metrics'
      ]_vars

\* an identity that is not registered has been unregistered while another
\* agent is registered and the cache is not empty
C20_Witness ==
    /\ last.op = "unregister"
    /\ ~last.known
    /\ Len(agents) >= 1
    /\ DOMAIN latest_metrics # {}

============================================================================
